---- MODULE Spec2Model ----
(***************************************************************************)
(* Model of WebSocketClient (include/libnullnexus/websocketclient.hpp).    *)
(*                                                                         *)
(* Threads: one caller of the public API, the worker thread running        *)
(* ioc.run(), and the detached threads running doReconnect.  The network   *)
(* and the clock are the environment: they decide the outcome of a         *)
(* connection attempt and of a write, complete the outstanding read and    *)
(* let an armed deadline_timer expire.                                     *)
(***************************************************************************)
EXTENDS Integers, Sequences, FiniteSets, TLC

\* Bounds of the exploration.
MaxAttempts == 3   \* calls of doConnectionAttempt
MaxSends == 2      \* calls of sendMessage
MaxReads == 1      \* messages received from the server

VARIABLES
    shouldBeActive,       \* bool shouldBeActive
    ws,                   \* std::optional<websocket::stream>: [id, st]
    work,                 \* std::optional<executor_work_guard> engaged
    worker,               \* std::optional<std::thread> engaged
    messages,             \* std::queue<std::string>
    start_delay_timer,    \* "idle" | "armed"
    message_queue_timer,  \* "idle" | "armed"
    rd,                   \* number of outstanding async_read operations
    ready,                \* completion handlers queued in ioc, by kind
    wpc,                  \* position of the worker thread
    attempts,             \* number of doConnectionAttempt calls so far
    lastAttempt,          \* what the latest doConnectionAttempt returned
    wire,                 \* writes the object's connections accepted, in
                          \* order: [m, q, h]
    reads,                \* number of callback invocations
    threads,              \* worker threads started and not yet joined
    buf,                  \* beast::flat_buffer buf: messages it holds
    drain,                \* what the queue drain of the last step did
    mutex,                \* owner of the recursive_mutex across steps
    cpc,                  \* position of the caller thread
    cop,                  \* the API call the caller is making
    ret,                  \* what the last API call returned or found
    nsend,                \* number of sendMessage calls so far
    reconn,               \* detached doReconnect threads not yet in the lock,
                          \* by handle; negated once their object is gone
    rcur,                 \* handle whose doReconnect is inside internalStop
    rret,                 \* "skipped" once a doReconnect has returned at its
                          \* test of shouldBeActive since the last start()
    destroyed,            \* ~WebSocketClient has finished
    uaf                   \* a thread ran on storage of a destroyed object

pvars == <<shouldBeActive, ws, work, worker, messages, start_delay_timer,
           message_queue_timer, rd, ready, wpc, attempts, lastAttempt, wire,
           reads, threads, buf, drain>>
tvars == <<mutex, cpc, cop, ret, nsend, reconn, rcur, rret, destroyed,
           uaf>>
vars == <<pvars, tvars>>

\* std::optional<websocket::stream<tcp::socket>> ws, empty
NoHandle == [id |-> 0, st |-> "none"]

\* The completion handlers the io_context can hold.
Kinds == {"sdt_ok", "sdt_abort", "mqt_ok", "mqt_abort",
          "read_ok", "read_err", "read_abort", "close"}

\* The members of the object, as one record the member functions transform.
\* drain is reset at the start of every step.  det collects the doReconnect
\* threads detached while the step runs.
State ==
    [shouldBeActive |-> shouldBeActive, ws |-> ws, work |-> work,
     worker |-> worker, messages |-> messages,
     start_delay_timer |-> start_delay_timer,
     message_queue_timer |-> message_queue_timer, rd |-> rd,
     ready |-> ready, wpc |-> wpc, attempts |-> attempts,
     lastAttempt |-> lastAttempt, wire |-> wire, reads |-> reads,
     threads |-> threads, buf |-> buf, drain |-> "none", det |-> {}]

Apply(s) ==
    /\ shouldBeActive' = s.shouldBeActive
    /\ ws' = s.ws
    /\ work' = s.work
    /\ worker' = s.worker
    /\ messages' = s.messages
    /\ start_delay_timer' = s.start_delay_timer
    /\ message_queue_timer' = s.message_queue_timer
    /\ rd' = s.rd
    /\ ready' = s.ready
    /\ wpc' = s.wpc
    /\ attempts' = s.attempts
    /\ lastAttempt' = s.lastAttempt
    /\ wire' = s.wire
    /\ reads' = s.reads
    /\ threads' = s.threads
    /\ buf' = s.buf
    /\ drain' = s.drain

\* ws && ws->is_open()
is_open(s) == s.ws.st = "open"

\* deadline_timer::cancel(): a pending wait completes with
\* operation_aborted; a wait that already expired is not affected.
timer_cancel(s, t, abortKind) ==
    IF s[t] = "armed"
    THEN [s EXCEPT ![t] = "idle", !.ready[abortKind] = @ + 1]
    ELSE s

\* expires_from_now + async_wait
timer_arm(s, t) == [s EXCEPT ![t] = "armed"]

\* ws->async_read(buf, handler_onread)
startAsyncRead(s) == [s EXCEPT !.rd = @ + 1]

\* The entries of wire for the payloads ms of the queue written on handle h.
Written(ms, h) == [i \in 1 .. Len(ms) |-> [m |-> ms[i], q |-> TRUE, h |-> h]]

\* As trySendMessageQueue, but after the write that throws it goes on with
\* the messages behind the one that failed.
trySendMessageQueue_SkipsAhead(s, j, keepOpen) ==
    IF ~s.shouldBeActive \/ ~is_open(s)
    THEN s
    ELSE LET n == Len(s.messages)
             k == IF j < n THEN j ELSE n
         IN  IF k = n
             THEN [s EXCEPT !.wire = @ \o Written(s.messages, s.ws.id),
                            !.messages = << >>, !.drain = "done"]
             ELSE [s EXCEPT !.wire = @ \o Written(SubSeq(s.messages, 1, k), s.ws.id)
                                       \o Written(SubSeq(s.messages, k + 2, n), s.ws.id),
                            !.messages = << s.messages[k + 1] >>,
                            !.message_queue_timer = "armed",
                            !.drain = "failed"]

\* As trySendMessageQueue, but the message whose write throws is popped.
trySendMessageQueue_DropsFailed(s, j, keepOpen) ==
    IF ~s.shouldBeActive \/ ~is_open(s)
    THEN s
    ELSE LET n == Len(s.messages)
             k == IF j < n THEN j ELSE n
         IN  IF k = n
             THEN [s EXCEPT !.wire = @ \o Written(s.messages, s.ws.id),
                            !.messages = << >>, !.drain = "done"]
             ELSE [s EXCEPT !.wire = @ \o Written(SubSeq(s.messages, 1, k), s.ws.id),
                            !.messages = SubSeq(s.messages, k + 2, n),
                            !.message_queue_timer = "armed",
                            !.drain = "failed"]

\* The drain of the queue.  j is the number of writes the connection
\* accepts before one throws; keepOpen tells whether the stream still
\* reports is_open() after the write that threw.
trySendMessageQueue(s, j, keepOpen) ==
    IF ~s.shouldBeActive \/ ~is_open(s)
    THEN s
    ELSE LET n == Len(s.messages)
             k == IF j < n THEN j ELSE n
             w == [s EXCEPT !.wire = @ \o Written(SubSeq(s.messages, 1, k), s.ws.id),
                            !.messages = SubSeq(s.messages, k + 1, n)]
         IN  IF k = n
             THEN [w EXCEPT !.drain = "done"]
             ELSE LET c == timer_cancel(w, "message_queue_timer", "mqt_abort")
                      a == timer_arm(c, "message_queue_timer")
                  IN  [a EXCEPT !.drain = "failed",
                                !.ws.st = IF keepOpen THEN "open" ELSE "failed"]

\* As handle_handler_error, but operation_aborted is treated as any error.
handle_handler_error_NoAbortTest(ec, h, detached) == detached \cup {h}

\* handle_handler_error: operation_aborted is ignored, any other error
\* starts a detached thread running doReconnect.  The result is the set
\* of detached threads, each named by the handle whose read failed.
handle_handler_error(ec, h, detached) ==
    IF ec = "operation_aborted" THEN detached ELSE detached \cup {h}

\* As handler_onread, but it does not start the next read.
handler_onread_NoRearm(s) == [s EXCEPT !.reads = @ + 1, !.buf = 0]

\* handler_onread without an error: callback, buf.clear(), startAsyncRead
handler_onread(s) == startAsyncRead([s EXCEPT !.reads = @ + 1, !.buf = 0])

\* What the worker thread, which runs handler_onread without the mutex,
\* can have done with the read of a new stream by the time
\* doConnectionAttempt reaches trySendMessageQueue: it has handled msgs
\* messages, each time starting the next read, and the read now
\* outstanding is still pending ("none"), has completed with a message
\* whose handler is queued ("queued"), has failed with its handler queued
\* ("failed"), or has failed and handler_onread has detached a
\* doReconnect thread ("handled").
Early == [msgs : 0 .. MaxReads, end : {"none", "queued", "failed", "handled"}]

NoEarly == [msgs |-> 0, end |-> "none"]

\* n times: the read completes with a message and handler_onread runs.
RECURSIVE earlyMessages(_, _)
earlyMessages(s, n) ==
    IF n = 0
    THEN s
    ELSE earlyMessages(
             handler_onread([s EXCEPT !.rd = @ - 1, !.buf = @ + 1]), n - 1)

earlyRead(s, early) ==
    LET m == earlyMessages(s, early.msgs)
    IN  CASE early.end = "queued" ->
               [m EXCEPT !.rd = @ - 1, !.ready["read_ok"] = @ + 1,
                         !.buf = @ + 1]
          [] early.end = "failed" ->
               [m EXCEPT !.rd = @ - 1, !.ready["read_err"] = @ + 1,
                         !.ws.st = "failed"]
          [] early.end = "handled" ->
               [m EXCEPT !.rd = @ - 1, !.ws.st = "failed",
                         !.det = handle_handler_error("error", m.ws.id, @)]
          [] OTHER -> m

\* One connection attempt.  oc is the step at which the network lets it
\* get: "resolve" (resolve throws), "connect" (connect or handshake throws
\* after ws.emplace) or "ok".
doConnectionAttempt(s, oc, j, keepOpen, early) ==
    LET a == [s EXCEPT !.attempts = @ + 1,
                       !.lastAttempt = IF oc = "ok" THEN "ok" ELSE "failed"]
    IN  CASE oc = "resolve" -> a
          [] oc = "connect" -> [a EXCEPT !.ws = [id |-> a.attempts, st |-> "failed"]]
          [] OTHER ->
               trySendMessageQueue(
                   earlyRead(
                       startAsyncRead([a EXCEPT !.ws = [id |-> a.attempts,
                                                        st |-> "open"]]),
                       early),
                   j, keepOpen)

\* The value doConnectionAttempt returns.
attemptResult(oc) == oc = "ok"

scheduleDelayedStart(s) ==
    timer_arm(timer_cancel(s, "start_delay_timer", "sdt_abort"), "start_delay_timer")

internalStart(s, oc, j, keepOpen, early) ==
    LET t == IF ~s.worker
             THEN [s EXCEPT !.work = TRUE, !.worker = TRUE, !.wpc = "run",
                            !.threads = @ + 1]
             ELSE s
        c == doConnectionAttempt(t, oc, j, keepOpen, early)
    IN  IF ~attemptResult(oc) THEN scheduleDelayedStart(c) ELSE c

\* internalStop up to worker->join(): cancel, async_close, cancel and,
\* if there is a worker, work.reset().
internalStopBegin(s) ==
    LET a == timer_cancel(s, "start_delay_timer", "sdt_abort")
        b == IF is_open(a) THEN [a EXCEPT !.ws.st = "closing"] ELSE a
        c == timer_cancel(b, "message_queue_timer", "mqt_abort")
    IN  IF c.worker THEN [c EXCEPT !.work = FALSE] ELSE c

\* internalStop after worker->join() returned: worker.reset(), ioc.restart()
internalStopEnd(s) ==
    [s EXCEPT !.worker = FALSE, !.wpc = "none", !.threads = @ - 1]


\* The outcomes the network can give to an attempt and to a drain.
Outcomes == {"resolve", "connect", "ok"}
Accepts == 0 .. MaxSends

NoOp == [op |-> "none", m |-> 0, q |-> FALSE]

Init ==
    /\ shouldBeActive = FALSE
    /\ ws = NoHandle
    /\ work = FALSE
    /\ worker = FALSE
    /\ messages = << >>
    /\ start_delay_timer = "idle"
    /\ message_queue_timer = "idle"
    /\ rd = 0
    /\ ready = [k \in Kinds |-> 0]
    /\ wpc = "none"
    /\ attempts = 0
    /\ lastAttempt = "none"
    /\ wire = << >>
    /\ reads = 0
    /\ threads = 0
    /\ buf = 0
    /\ drain = "none"
    /\ mutex = "none"
    /\ cpc = "idle"
    /\ cop = NoOp
    /\ ret = "none"
    /\ nsend = 0
    /\ reconn = {}
    /\ rcur = 0
    /\ rret = "none"
    /\ destroyed = FALSE
    /\ uaf = FALSE

\* Connection attempts that are already bound to happen; with attempts it
\* caps the number of doConnectionAttempt calls of a run at MaxAttempts.
Committed ==
    (IF cpc = "wait" /\ cop.op = "start" THEN 1 ELSE 0)
    + ready["sdt_ok"] + (IF wpc = "sdt" THEN 1 ELSE 0)
    + ready["read_err"] + Cardinality(reconn) + (IF rcur # 0 THEN 1 ELSE 0)

Budget == attempts + Committed < MaxAttempts

\* The early completions explored for an attempt with outcome oc: they
\* stay within MaxReads messages, and a failure is one more attempt that
\* is bound to come.
EarlyAllowed(oc, early) ==
    \/ early = NoEarly
    \/ /\ oc = "ok"
       /\ reads + ready["read_ok"] + early.msgs
             + (IF early.end = "queued" THEN 1 ELSE 0) <= MaxReads
       /\ early.end \in {"failed", "handled"} => Budget

----------------------------------------------------------------------------
(* The public API, called from the caller thread. *)

CallStart ==
    /\ cpc = "idle" /\ ~destroyed /\ Budget
    /\ cpc' = "wait" /\ cop' = [op |-> "start", m |-> 0, q |-> FALSE]
    /\ ret' = "none"
    /\ UNCHANGED <<pvars, mutex, nsend, reconn, rcur, rret, destroyed, uaf>>

CallStop ==
    /\ cpc = "idle" /\ ~destroyed
    /\ cpc' = "wait" /\ cop' = [op |-> "stop", m |-> 0, q |-> FALSE]
    /\ ret' = "none"
    /\ UNCHANGED <<pvars, mutex, nsend, reconn, rcur, rret, destroyed, uaf>>

CallSend ==
    /\ cpc = "idle" /\ ~destroyed /\ nsend < MaxSends
    /\ \E q \in BOOLEAN :
          cop' = [op |-> "send", m |-> nsend + 1, q |-> q]
    /\ cpc' = "wait" /\ nsend' = nsend + 1
    /\ ret' = "none"
    /\ UNCHANGED <<pvars, mutex, reconn, rcur, rret, destroyed, uaf>>

CallDestructor ==
    /\ cpc = "idle" /\ ~destroyed
    /\ cpc' = "wait" /\ cop' = [op |-> "dtor", m |-> 0, q |-> FALSE]
    /\ ret' = "none"
    /\ UNCHANGED <<pvars, mutex, nsend, reconn, rcur, rret, destroyed, uaf>>

\* A new WebSocketClient is constructed in the storage of the destroyed
\* one.  The doReconnect threads the old object detached keep its address
\* as their this pointer and from now on act on the new object.  Reuse is
\* explored when such a thread exists; without one the new object is a
\* client in its initial state.  What the run has counted so far stays:
\* the attempts, the calls of sendMessage, the callbacks, the messages on
\* the wire.  lastAttempt is about the attempts of the object at hand.
Construct ==
    /\ cpc = "idle" /\ destroyed /\ reconn # {}
    /\ Apply([State EXCEPT !.shouldBeActive = FALSE, !.ws = NoHandle,
                           !.work = FALSE, !.worker = FALSE,
                           !.messages = << >>,
                           !.start_delay_timer = "idle",
                           !.message_queue_timer = "idle",
                           !.rd = 0, !.ready = [k \in Kinds |-> 0],
                           !.wpc = "none", !.lastAttempt = "none",
                           !.threads = 0, !.buf = 0])
    /\ reconn' = {IF h > 0 THEN 0 - h ELSE h : h \in reconn}
    /\ destroyed' = FALSE /\ rret' = "none"
    /\ cop' = [op |-> "ctor", m |-> 0, q |-> FALSE] /\ ret' = "done"
    /\ UNCHANGED <<mutex, cpc, nsend, rcur, uaf>>

\* As start, without the test of shouldBeActive.
start_NoCheck ==
    /\ cpc = "wait" /\ cop.op = "start" /\ mutex = "none"
    /\ \E oc \in Outcomes, j \in Accepts, keepOpen \in BOOLEAN,
          early \in Early :
          LET r == internalStart([State EXCEPT !.shouldBeActive = TRUE],
                                 oc, j, keepOpen, early)
          IN  /\ EarlyAllowed(oc, early)
              /\ Apply(r) /\ reconn' = reconn \cup r.det
    /\ ret' = IF shouldBeActive THEN "noop" ELSE "done"
    /\ cpc' = "idle" /\ rret' = "none"
    /\ UNCHANGED <<mutex, cop, nsend, rcur, destroyed, uaf>>

\* start(), from the lock_guard to the return
start ==
    /\ cpc = "wait" /\ cop.op = "start" /\ mutex = "none"
    /\ \E oc \in Outcomes, j \in Accepts, keepOpen \in BOOLEAN,
          early \in Early :
          IF shouldBeActive
          THEN Apply(State) /\ ret' = "noop" /\ UNCHANGED reconn
          ELSE LET r == internalStart([State EXCEPT !.shouldBeActive = TRUE],
                                      oc, j, keepOpen, early)
               IN  /\ EarlyAllowed(oc, early)
                   /\ Apply(r) /\ reconn' = reconn \cup r.det
                   /\ ret' = "done"
    /\ cpc' = "idle" /\ rret' = "none"
    /\ UNCHANGED <<mutex, cop, nsend, rcur, destroyed, uaf>>

\* As stop, but it returns without joining the worker thread.
stop_NoJoin ==
    /\ cpc = "wait" /\ cop.op \in {"stop", "dtor"} /\ mutex = "none"
    /\ IF ~shouldBeActive
       THEN Apply(State) /\ ret' = "noop"
       ELSE Apply(internalStopBegin([State EXCEPT !.shouldBeActive = FALSE]))
            /\ ret' = "done"
    /\ cpc' = "idle"
    /\ destroyed' = (cop.op = "dtor")
    /\ UNCHANGED <<mutex, cop, nsend, reconn, rcur, rret, uaf>>

\* As stop, but it lets go of the worker thread instead of joining it.
stop_Detaches ==
    /\ cpc = "wait" /\ cop.op \in {"stop", "dtor"} /\ mutex = "none"
    /\ IF ~shouldBeActive
       THEN Apply(State) /\ ret' = "noop"
       ELSE Apply([internalStopBegin([State EXCEPT !.shouldBeActive = FALSE])
                      EXCEPT !.worker = FALSE])
            /\ ret' = "done"
    /\ cpc' = "idle"
    /\ destroyed' = (cop.op = "dtor")
    /\ UNCHANGED <<mutex, cop, nsend, reconn, rcur, rret, uaf>>

\* As stop, but a stop() that finds shouldBeActive false empties the queue.
stop_ClearsQueue ==
    /\ cpc = "wait" /\ cop.op \in {"stop", "dtor"} /\ mutex = "none"
    /\ IF ~shouldBeActive
       THEN /\ Apply([State EXCEPT !.messages = << >>])
            /\ cpc' = "idle" /\ ret' = "noop"
            /\ destroyed' = (cop.op = "dtor")
            /\ UNCHANGED mutex
       ELSE /\ Apply(internalStopBegin([State EXCEPT !.shouldBeActive = FALSE]))
            /\ cpc' = "join" /\ mutex' = "caller"
            /\ UNCHANGED <<ret, destroyed>>
    /\ UNCHANGED <<cop, nsend, reconn, rcur, rret, uaf>>

\* stop() (and the destructor, which calls it), from the lock_guard to
\* worker->join(); it returns at once when there is nothing to join.
stop ==
    /\ cpc = "wait" /\ cop.op \in {"stop", "dtor"} /\ mutex = "none"
    /\ IF ~shouldBeActive
       THEN /\ Apply(State)
            /\ cpc' = "idle" /\ ret' = "noop"
            /\ destroyed' = (cop.op = "dtor")
            /\ UNCHANGED mutex
       ELSE LET s == internalStopBegin([State EXCEPT !.shouldBeActive = FALSE])
            IN  /\ Apply(s)
                /\ IF s.worker
                   THEN cpc' = "join" /\ mutex' = "caller"
                        /\ UNCHANGED <<ret, destroyed>>
                   ELSE cpc' = "idle" /\ ret' = "done" /\ UNCHANGED mutex
                        /\ destroyed' = (cop.op = "dtor")
    /\ UNCHANGED <<cop, nsend, reconn, rcur, rret, uaf>>

\* stop(), from the return of worker->join() to its own return
stopJoined ==
    /\ cpc = "join" /\ wpc = "exited"
    /\ Apply(internalStopEnd(State))
    /\ mutex' = "none"
    /\ cpc' = "idle" /\ ret' = "done"
    /\ destroyed' = (cop.op = "dtor")
    /\ UNCHANGED <<cop, nsend, reconn, rcur, rret, uaf>>

\* As sendDirect, but a write that throws drops the stream.
sendDirect_ResetsHandle(s, m, ok, keepOpen) ==
    IF s.ws = NoHandle
    THEN [st |-> s, ret |-> "false"]
    ELSE IF is_open(s) /\ ok
         THEN [st |-> [s EXCEPT !.wire = Append(@, [m |-> m, q |-> FALSE, h |-> s.ws.id])],
               ret |-> "true"]
         ELSE [st |-> [s EXCEPT !.ws = NoHandle], ret |-> "false"]

\* As sendDirect, but a message that could not be written is queued.
sendDirect_Queues(s, m, ok, keepOpen) ==
    IF s.ws # NoHandle /\ is_open(s) /\ ok
    THEN [st |-> [s EXCEPT !.wire = Append(@, [m |-> m, q |-> FALSE, h |-> s.ws.id])],
          ret |-> "true"]
    ELSE [st |-> [s EXCEPT !.messages = Append(@, m)], ret |-> "false"]

\* As sendQueued, but the message is put at the head of the queue.
sendQueued_Front(s, m, j, keepOpen) ==
    [st |-> trySendMessageQueue([s EXCEPT !.messages = << m >> \o @], j, keepOpen),
     ret |-> "true"]

\* The else branch of sendMessage: one write on the current handle.
\* ok tells whether the connection accepts the write, keepOpen whether an
\* open stream still reports is_open() after a write that threw.
sendDirect(s, m, ok, keepOpen) ==
    IF s.ws = NoHandle
    THEN [st |-> s, ret |-> "false"]
    ELSE IF is_open(s) /\ ok
         THEN [st |-> [s EXCEPT !.wire = Append(@, [m |-> m, q |-> FALSE, h |-> s.ws.id])],
               ret |-> "true"]
         ELSE [st |-> [s EXCEPT !.ws.st = IF @ = "open" /\ ~keepOpen
                                          THEN "failed" ELSE @],
               ret |-> "false"]

\* The sendIfOffline branch of sendMessage.
sendQueued(s, m, j, keepOpen) ==
    [st |-> trySendMessageQueue([s EXCEPT !.messages = Append(@, m)], j, keepOpen),
     ret |-> "true"]

sendMessage ==
    /\ cpc = "wait" /\ cop.op = "send" /\ mutex = "none"
    /\ \E j \in Accepts, keepOpen \in BOOLEAN :
          LET r == IF cop.q
                   THEN sendQueued(State, cop.m, j, keepOpen)
                   ELSE sendDirect(State, cop.m, j > 0, keepOpen)
          IN  Apply(r.st) /\ ret' = r.ret
    /\ cpc' = "idle"
    /\ UNCHANGED <<mutex, cop, nsend, reconn, rcur, rret, destroyed, uaf>>

----------------------------------------------------------------------------
(* The environment: the clock and the network. *)

\* start_delay_timer expires: its handler is queued with no error.
StartDelayExpires ==
    /\ start_delay_timer = "armed" /\ Budget
    /\ Apply([State EXCEPT !.start_delay_timer = "idle",
                           !.ready["sdt_ok"] = @ + 1])
    /\ UNCHANGED tvars

\* message_queue_timer expires.
MessageQueueExpires ==
    /\ message_queue_timer = "armed"
    /\ Apply([State EXCEPT !.message_queue_timer = "idle",
                           !.ready["mqt_ok"] = @ + 1])
    /\ UNCHANGED tvars

\* The outstanding read completes with a message.
ReadData ==
    /\ rd > 0 /\ ws.st = "open"
    /\ reads + ready["read_ok"] < MaxReads
    /\ Apply([State EXCEPT !.rd = @ - 1, !.ready["read_ok"] = @ + 1,
                           !.buf = @ + 1])
    /\ UNCHANGED tvars

\* The outstanding read completes with an error other than
\* operation_aborted (the peer went away, or error::closed after a close).
ReadError ==
    /\ rd > 0 /\ Budget
    /\ Apply([State EXCEPT !.rd = @ - 1, !.ready["read_err"] = @ + 1,
                           !.ws.st = IF @ = "open" THEN "failed" ELSE @])
    /\ UNCHANGED tvars

\* The outstanding read completes with operation_aborted: the stream was
\* closed locally or has already reported its failure to another operation.
ReadAborted ==
    /\ rd > 0 /\ ws.st # "open"
    /\ Apply([State EXCEPT !.rd = @ - 1, !.ready["read_abort"] = @ + 1])
    /\ UNCHANGED tvars

\* The async_close of internalStop completes.
CloseCompletes ==
    /\ ws.st = "closing"
    /\ Apply([State EXCEPT !.ws.st = "closed", !.ready["close"] = @ + 1])
    /\ UNCHANGED tvars

----------------------------------------------------------------------------
(* The worker thread: ioc.run() takes one queued handler at a time. *)

Take(k) == [State EXCEPT !.ready[k] = @ - 1]

OnReadMessage ==
    /\ wpc = "run" /\ ready["read_ok"] > 0
    /\ Apply(handler_onread(Take("read_ok")))
    /\ UNCHANGED tvars

OnReadError ==
    /\ wpc = "run" /\ ready["read_err"] > 0
    /\ Apply(Take("read_err"))
    /\ reconn' = handle_handler_error("error", ws.id, reconn)
    /\ UNCHANGED <<mutex, cpc, cop, ret, nsend, rcur, rret, destroyed, uaf>>

OnReadAborted ==
    /\ wpc = "run" /\ ready["read_abort"] > 0
    /\ Apply(Take("read_abort"))
    /\ reconn' = handle_handler_error("operation_aborted", ws.id, reconn)
    /\ UNCHANGED <<mutex, cpc, cop, ret, nsend, rcur, rret, destroyed, uaf>>

\* The empty completion handler given to async_close.
OnClosed ==
    /\ wpc = "run" /\ ready["close"] > 0
    /\ Apply(Take("close"))
    /\ UNCHANGED tvars

\* handler_startDelayTimer with ec set: return.
StartDelayAborted ==
    /\ wpc = "run" /\ ready["sdt_abort"] > 0
    /\ Apply(Take("sdt_abort"))
    /\ UNCHANGED tvars

\* handler_startDelayTimer without an error, up to the lock_guard.
StartDelayFired ==
    /\ wpc = "run" /\ ready["sdt_ok"] > 0
    /\ Apply([Take("sdt_ok") EXCEPT !.wpc = "sdt"])
    /\ UNCHANGED tvars

\* handler_startDelayTimer, from the lock_guard to the return.
handler_startDelayTimer ==
    /\ wpc = "sdt" /\ mutex = "none"
    /\ \E oc \in Outcomes, j \in Accepts, keepOpen \in BOOLEAN :
          LET s == [State EXCEPT !.wpc = "run"]
              c == doConnectionAttempt(s, oc, j, keepOpen, NoEarly)
          IN  IF ~s.shouldBeActive
              THEN Apply(s)
              ELSE IF ~attemptResult(oc)
                   THEN Apply(scheduleDelayedStart(c))
                   ELSE Apply(c)
    /\ UNCHANGED tvars

\* handle_timerMessageQueue with ec set: return.
MessageQueueAborted ==
    /\ wpc = "run" /\ ready["mqt_abort"] > 0
    /\ Apply(Take("mqt_abort"))
    /\ UNCHANGED tvars

\* handle_timerMessageQueue without an error, up to the lock_guard of
\* trySendMessageQueue.
MessageQueueFired ==
    /\ wpc = "run" /\ ready["mqt_ok"] > 0
    /\ Apply([Take("mqt_ok") EXCEPT !.wpc = "mqt"])
    /\ UNCHANGED tvars

\* handle_timerMessageQueue, inside trySendMessageQueue.
handle_timerMessageQueue ==
    /\ wpc = "mqt" /\ mutex = "none"
    /\ \E j \in Accepts, keepOpen \in BOOLEAN :
          Apply(trySendMessageQueue([State EXCEPT !.wpc = "run"], j, keepOpen))
    /\ UNCHANGED tvars

\* ioc.run() returns when the work guard is gone and nothing is
\* outstanding: no armed timer, no read, no close, no queued handler.
OutOfWork(s) ==
    /\ ~s.work
    /\ s.start_delay_timer = "idle" /\ s.message_queue_timer = "idle"
    /\ s.rd = 0 /\ s.ws.st # "closing"
    /\ \A k \in Kinds : s.ready[k] = 0

runIO ==
    /\ wpc = "run" /\ OutOfWork(State)
    /\ Apply([State EXCEPT !.wpc = "exited"])
    /\ UNCHANGED tvars

----------------------------------------------------------------------------
(* The detached threads running doReconnect. *)

\* As doReconnect, but without the test of shouldBeActive under the lock.
doReconnect_NoRecheck ==
    /\ mutex = "none" /\ ~destroyed
    /\ \E h \in reconn :
          /\ uaf' = (uaf \/ h < 0)
          /\ rret' = (IF ~shouldBeActive THEN "skipped" ELSE rret)
          /\ LET s == internalStopBegin(State)
             IN  IF s.worker
                 THEN /\ Apply(s) /\ reconn' = reconn \ {h}
                      /\ mutex' = "reconn" /\ rcur' = h
                 ELSE /\ \E oc \in Outcomes, j \in Accepts,
                            keepOpen \in BOOLEAN, early \in Early :
                            LET r == internalStart(s, oc, j, keepOpen, early)
                            IN  /\ EarlyAllowed(oc, early)
                                /\ Apply(r)
                                /\ reconn' = (reconn \ {h}) \cup r.det
                      /\ UNCHANGED <<mutex, rcur>>
    /\ UNCHANGED <<cpc, cop, ret, nsend, destroyed>>

\* doReconnect, from the lock_guard to worker->join() of internalStop.
\* A thread whose object is gone runs it on the object now in its place.
doReconnect ==
    /\ mutex = "none" /\ ~destroyed
    /\ \E h \in reconn :
          /\ uaf' = (uaf \/ h < 0)
          /\ IF ~shouldBeActive
             THEN /\ Apply(State) /\ reconn' = reconn \ {h}
                  /\ rret' = "skipped" /\ UNCHANGED <<mutex, rcur>>
             ELSE LET s == internalStopBegin(State)
                  IN  /\ UNCHANGED rret
                      /\ IF s.worker
                         THEN /\ Apply(s) /\ reconn' = reconn \ {h}
                              /\ mutex' = "reconn" /\ rcur' = h
                         ELSE /\ \E oc \in Outcomes, j \in Accepts,
                                    keepOpen \in BOOLEAN, early \in Early :
                                    LET r == internalStart(s, oc, j, keepOpen,
                                                           early)
                                    IN  /\ EarlyAllowed(oc, early)
                                        /\ Apply(r)
                                        /\ reconn' = (reconn \ {h}) \cup r.det
                              /\ UNCHANGED <<mutex, rcur>>
    /\ UNCHANGED <<cpc, cop, ret, nsend, destroyed>>

\* doReconnect, from the return of worker->join() to its own return:
\* the rest of internalStop, then internalStart.
doReconnectJoined ==
    /\ rcur # 0 /\ wpc = "exited"
    /\ \E oc \in Outcomes, j \in Accepts, keepOpen \in BOOLEAN,
          early \in Early :
          LET r == internalStart(internalStopEnd(State), oc, j, keepOpen,
                                 early)
          IN  /\ EarlyAllowed(oc, early)
              /\ Apply(r) /\ reconn' = reconn \cup r.det
    /\ mutex' = "none" /\ rcur' = 0
    /\ UNCHANGED <<cpc, cop, ret, nsend, rret, destroyed, uaf>>

\* A detached thread reaches doReconnect after the destructor finished
\* and before anything else lives in the storage: it locks a destroyed
\* mutex and reads a destroyed member.  The behaviour is undefined: the
\* thread may find shouldBeActive false, as the destructor left it, and
\* return, or the process may end there.  A thread that hangs in the lock
\* is a thread that never takes this step.
doReconnectDestroyed ==
    /\ destroyed /\ cpc # "crashed"
    /\ \E h \in reconn : reconn' = reconn \ {h}
    /\ uaf' = TRUE
    /\ Apply(State)
    /\ \E outcome \in {"return", "crash"} :
          cpc' = (IF outcome = "crash" THEN "crashed" ELSE cpc)
    /\ UNCHANGED <<mutex, cop, ret, nsend, rcur, rret, destroyed>>

----------------------------------------------------------------------------

Next ==
    \/ CallStart \/ CallStop \/ CallSend \/ CallDestructor \/ Construct
    \/ start \/ stop \/ stopJoined \/ sendMessage
    \/ StartDelayExpires \/ MessageQueueExpires
    \/ ReadData \/ ReadError \/ ReadAborted \/ CloseCompletes
    \/ OnReadMessage \/ OnReadError \/ OnReadAborted \/ OnClosed
    \/ StartDelayAborted \/ StartDelayFired \/ handler_startDelayTimer
    \/ MessageQueueAborted \/ MessageQueueFired \/ handle_timerMessageQueue
    \/ runIO
    \/ doReconnect \/ doReconnectJoined \/ doReconnectDestroyed

Spec == Init /\ [][Next]_vars

\* Scheduling: a thread that can take a step takes it, operations on a
\* stream that is no longer open complete, and timers expire.  Whether the
\* caller calls, and whether the peer sends or drops, is left open.
WorkerStep ==
    \/ OnReadMessage \/ OnReadError \/ OnReadAborted \/ OnClosed
    \/ StartDelayAborted \/ StartDelayFired \/ handler_startDelayTimer
    \/ MessageQueueAborted \/ MessageQueueFired \/ handle_timerMessageQueue
    \/ runIO

ReconnectStep == doReconnect \/ doReconnectJoined

CallerStep == start \/ stop \/ stopJoined \/ sendMessage

CompletionStep ==
    ReadAborted \/ CloseCompletes \/ StartDelayExpires \/ MessageQueueExpires

FairSpec ==
    /\ Spec
    /\ WF_vars(WorkerStep) /\ WF_vars(ReconnectStep)
    /\ WF_vars(CallerStep) /\ WF_vars(CompletionStep)

----------------------------------------------------------------------------
(* The same client with room for one more connection attempt: a run in     *)
(* which a reconnect is pending while the start delay timer fires needs a  *)
(* successful attempt, a failed one and two more that are bound to come.   *)

WideBudget == attempts + Committed < MaxAttempts + 1

CallStartWide ==
    /\ cpc = "idle" /\ ~destroyed /\ WideBudget
    /\ cpc' = "wait" /\ cop' = [op |-> "start", m |-> 0, q |-> FALSE]
    /\ ret' = "none"
    /\ UNCHANGED <<pvars, mutex, nsend, reconn, rcur, rret, destroyed, uaf>>

StartDelayExpiresWide ==
    /\ start_delay_timer = "armed" /\ WideBudget
    /\ Apply([State EXCEPT !.start_delay_timer = "idle",
                           !.ready["sdt_ok"] = @ + 1])
    /\ UNCHANGED tvars

ReadErrorWide ==
    /\ rd > 0 /\ WideBudget
    /\ Apply([State EXCEPT !.rd = @ - 1, !.ready["read_err"] = @ + 1,
                           !.ws.st = IF @ = "open" THEN "failed" ELSE @])
    /\ UNCHANGED tvars

WideNext ==
    \/ CallStartWide \/ CallStop \/ CallSend \/ CallDestructor \/ Construct
    \/ start \/ stop \/ stopJoined \/ sendMessage
    \/ StartDelayExpiresWide \/ MessageQueueExpires
    \/ ReadData \/ ReadErrorWide \/ ReadAborted \/ CloseCompletes
    \/ OnReadMessage \/ OnReadError \/ OnReadAborted \/ OnClosed
    \/ StartDelayAborted \/ StartDelayFired \/ handler_startDelayTimer
    \/ MessageQueueAborted \/ MessageQueueFired \/ handle_timerMessageQueue
    \/ runIO
    \/ doReconnect \/ doReconnectJoined \/ doReconnectDestroyed

WideCompletionStep ==
    \/ ReadAborted \/ CloseCompletes
    \/ StartDelayExpiresWide \/ MessageQueueExpires

WideFairSpec ==
    /\ Init /\ [][WideNext]_vars
    /\ WF_vars(WorkerStep) /\ WF_vars(ReconnectStep)
    /\ WF_vars(CallerStep) /\ WF_vars(WideCompletionStep)

TypeOK ==
    /\ shouldBeActive \in BOOLEAN /\ work \in BOOLEAN /\ worker \in BOOLEAN
    /\ ws.id \in 0 .. MaxAttempts
    /\ ws.st \in {"none", "open", "closing", "closed", "failed"}
    /\ attempts \in 0 .. MaxAttempts
    /\ rd \in 0 .. 1
    /\ wpc \in {"none", "run", "sdt", "mqt", "exited"}
    /\ mutex \in {"none", "caller", "reconn"}
    /\ ws.id \notin reconn \/ ws.st # "open"

----------------------------------------------------------------------------
(* Start, stop and the worker thread. *)

\* No worker thread and no armed or expired timer is left.
NoThreadNoTimer ==
    /\ ~worker /\ wpc = "none" /\ ~work
    /\ start_delay_timer = "idle" /\ message_queue_timer = "idle"
    /\ \A k \in Kinds : ready[k] = 0

\* C1: whenever stop() has returned and start() has not been called since
\* (shouldBeActive is false and nobody is inside the lock), there is no
\* worker thread, neither timer is armed and no timer handler is queued;
\* the same holds at the moment the worker->join() of stop() returns.
C1_StopLeavesNoThreadNoTimer ==
    /\ (~shouldBeActive /\ mutex = "none") => NoThreadNoTimer
    /\ (cpc = "join" /\ wpc = "exited") =>
          /\ start_delay_timer = "idle" /\ message_queue_timer = "idle"
          /\ \A k \in Kinds : ready[k] = 0

\* A stop() that found shouldBeActive true has returned, after a failed
\* attempt had armed the start delay timer.
C1_Witness ==
    /\ cpc = "idle" /\ cop.op = "stop" /\ ret = "done"
    /\ ws.st = "failed" /\ attempts > 0 /\ ~shouldBeActive

\* The step in which the API call op runs from its lock_guard to its return.
Returns(op) == cpc = "wait" /\ cop.op = op /\ cpc' = "idle"

\* C2: a start() that finds shouldBeActive true changes nothing, and a
\* start() that finds it false creates the one worker thread and makes
\* exactly one connection attempt.
C2_StartIdempotent ==
    [][Returns("start") =>
          IF shouldBeActive
          THEN UNCHANGED <<shouldBeActive, ws, work, worker, messages,
                           start_delay_timer, message_queue_timer, rd, ready,
                           wpc, attempts, wire, reads>>
          ELSE /\ ~worker /\ worker' /\ wpc' = "run"
               /\ attempts' = attempts + 1
               /\ shouldBeActive']_vars

\* The second of two start() calls has returned: one worker, one attempt.
C2_Witness ==
    /\ cpc = "idle" /\ cop.op = "start" /\ ret = "noop"
    /\ attempts = 1 /\ worker

\* C3: a stop() that finds shouldBeActive false leaves shouldBeActive, the
\* handle, the queue, both timers and the worker thread as they were.
C3_StopWhenInactiveIsNoop ==
    [][(Returns("stop") /\ ~shouldBeActive) =>
          UNCHANGED <<shouldBeActive, ws, messages, start_delay_timer,
                      message_queue_timer, work, worker, wpc, rd, ready,
                      attempts, wire>>]_vars

\* A stop() with no start() before it has returned, with a message queued.
C3_Witness ==
    /\ cpc = "idle" /\ cop.op = "stop" /\ ret = "noop"
    /\ attempts = 0 /\ messages # << >>

----------------------------------------------------------------------------
(* Sending. *)

\* The writes of queued messages, in the order the connection got them.
QueuedWrites == SelectSeq(wire, LAMBDA e : e.q)

\* C4: message ids grow in the order of the sendMessage calls.  The queued
\* messages are written in that order, each once, and none is written
\* while a message enqueued before it is still in the queue.
C4_QueueIsFifo ==
    /\ \A i, k \in DOMAIN QueuedWrites : i < k => QueuedWrites[i].m < QueuedWrites[k].m
    /\ \A i \in DOMAIN QueuedWrites, k \in DOMAIN messages :
          QueuedWrites[i].m < messages[k]
    /\ \A i, k \in DOMAIN messages : i < k => messages[i] < messages[k]

\* Two messages were queued before start(); the attempt of start() opened
\* the first connection and wrote both.
C4_Witness ==
    /\ cpc = "idle" /\ cop.op = "start" /\ ret = "done" /\ attempts = 1
    /\ Len(QueuedWrites) = 2 /\ messages = << >> /\ drain = "done"

\* C5: sendMessage(m, false) with no handle, or with a handle that is not
\* open, returns false, and the queue and the writes are as they were.
C5_DirectSendOffline ==
    [][(Returns("send") /\ ~cop.q /\ ws.st # "open") =>
          /\ ret' = "false"
          /\ messages' = messages
          /\ wire' = wire]_vars

\* sendMessage(m, false) returned false on the handle a stop() closed,
\* with a message in the queue.
C5_Witness ==
    /\ cpc = "idle" /\ cop.op = "send" /\ ~cop.q /\ ret = "false"
    /\ ws.st = "closed" /\ messages # << >>

\* C6: sendMessage(m, true) returns true; the queue followed by m is then
\* split in two: a head that was written in order on the current handle,
\* and the rest, which is the queue that is left.
C6_QueuedSendAccepts ==
    [][(Returns("send") /\ cop.q) =>
          /\ ret' = "true"
          /\ LET pre == Append(messages, cop.m)
             IN  \E k \in 0 .. Len(pre) :
                    /\ messages' = SubSeq(pre, k + 1, Len(pre))
                    /\ wire' = wire \o [i \in 1 .. k |->
                                          [m |-> pre[i], q |-> TRUE, h |-> ws.id]]]_vars

\* sendMessage(m, true) returned with m queued behind an older message.
C6_Witness ==
    /\ cpc = "idle" /\ cop.op = "send" /\ cop.q /\ ret = "true"
    /\ Len(messages) = 2 /\ messages[2] = cop.m

\* C7: a step in which a write of the drain throws leaves the message
\* that failed at the head of the queue, has written exactly the messages
\* before it, and arms message_queue_timer.
C7_FailedWriteStopsDrain ==
    [][drain' = "failed" =>
          LET pre == IF Returns("send") /\ cop.q
                     THEN Append(messages, cop.m) ELSE messages
          IN  /\ message_queue_timer' = "armed"
              /\ \E k \in 0 .. Len(pre) - 1 :
                    /\ messages' = SubSeq(pre, k + 1, Len(pre))
                    /\ wire' = wire \o [i \in 1 .. k |->
                                          [m |-> pre[i], q |-> TRUE, h |-> ws'.id]]]_vars

\* A drain wrote one message, then a write threw with one more behind it.
C7_Witness ==
    /\ drain = "failed" /\ Len(messages) = 1 /\ Len(QueuedWrites) = 1
    /\ message_queue_timer = "armed"

----------------------------------------------------------------------------
(* Reconnecting. *)

\* C8: a read error handled by the worker starts exactly one doReconnect
\* thread; a doReconnect that found shouldBeActive true makes no attempt
\* while it is inside internalStop, makes exactly one when it leaves, does
\* not open the handle whose read failed again, and does leave.
C8_ReadErrorReconnectsOnce ==
    /\ [][(wpc = "run" /\ ready'["read_err"] = ready["read_err"] - 1) =>
             Cardinality(reconn') = Cardinality(reconn) + 1]_vars
    /\ [][(rcur # 0 /\ rcur' # 0) => attempts' = attempts]_vars
    /\ [][(rcur # 0 /\ rcur' = 0) =>
             /\ attempts' = attempts + 1
             /\ ws'.st = "open" => ws'.id # rcur]_vars
    /\ (rcur # 0) ~> (rcur = 0)

\* C9: while shouldBeActive is true, the attempt that follows a failed
\* attempt is made by the handler of the expired start_delay_timer, and
\* that handler makes no attempt once stop() has cleared shouldBeActive.
C9_NoAttemptBeforeDelay ==
    [][(attempts' = attempts + 1) =>
          /\ (shouldBeActive /\ lastAttempt = "failed") => wpc = "sdt"
          /\ wpc = "sdt" => shouldBeActive]_vars

\* C10: once the destructor has finished there is no worker thread, no
\* doReconnect thread and no armed timer, and nothing runs on the object.
C10_DestructorLeavesNothing ==
    destroyed =>
        /\ NoThreadNoTimer
        /\ reconn = {} /\ rcur = 0
        /\ ~uaf

----------------------------------------------------------------------------
(* The state of the connection while the client should be active. *)

\* No handle, and the start delay timer is pending.
WaitingToRetry == ws = NoHandle /\ start_delay_timer = "armed"

\* A handle that is present and open.
LiveHandle == ws # NoHandle /\ ws.st = "open"

\* C11: whenever shouldBeActive is true and nobody is inside the lock,
\* either there is no handle and start_delay_timer is pending, or there is
\* an open handle, and not both.
C11_RetryingOrLive ==
    (shouldBeActive /\ mutex = "none") => (WaitingToRetry # LiveHandle)

\* C12: at most one worker thread exists at any time, and whenever nobody
\* is inside the lock a worker thread exists exactly when shouldBeActive
\* is true.
C12_OneWorkerIffActive ==
    /\ threads <= 1
    /\ threads = (IF worker THEN 1 ELSE 0)
    /\ mutex = "none" => (threads = 1 <=> shouldBeActive)

\* The client is active with its one worker thread on a second connection:
\* the worker of the first connection, which carried a write, was joined
\* and a new one was created.
C12_Witness ==
    /\ shouldBeActive /\ mutex = "none" /\ threads = 1 /\ worker
    /\ wpc \in {"run", "sdt", "mqt"}
    /\ ws.id >= 2 /\ ws.st = "open"
    /\ \E i \in 1 .. Len(wire) : wire[i].h = 1

----------------------------------------------------------------------------
(* stop() against a reconnect that is already dispatched. *)

\* A detached doReconnect thread takes the lock and finds shouldBeActive
\* false.
ReconnectFindsStopped ==
    /\ ~shouldBeActive /\ ~destroyed
    /\ reconn' # reconn /\ reconn' \subseteq reconn

\* C13: a dispatched reconnect that takes the lock after stop() has set
\* shouldBeActive to false does neither internalStop nor internalStart: it
\* leaves every member as it was; and as long as shouldBeActive stays
\* false no connection attempt is made, no worker thread is created and
\* no timer is armed.
C13_StopWinsOverReconnect ==
    /\ [][ReconnectFindsStopped =>
             UNCHANGED <<shouldBeActive, ws, work, worker, messages,
                         start_delay_timer, message_queue_timer, rd, ready,
                         wpc, attempts, lastAttempt, wire, reads, threads,
                         mutex, rcur>>]_vars
    /\ [][(~shouldBeActive /\ ~shouldBeActive') =>
             /\ attempts' = attempts
             /\ threads' <= threads
             /\ start_delay_timer' = "armed" => start_delay_timer = "armed"
             /\ message_queue_timer' = "armed" =>
                   message_queue_timer = "armed"]_vars

\* stop() has returned, a reconnect dispatched before it has since taken
\* the lock and returned, and nothing is running.
C13_Witness ==
    /\ rret = "skipped" /\ reconn = {} /\ rcur = 0
    /\ ~shouldBeActive /\ mutex = "none"
    /\ cpc = "idle" /\ cop.op = "stop" /\ ret = "done"
    /\ NoThreadNoTimer /\ attempts = 1

----------------------------------------------------------------------------
(* The handle after a connection attempt. *)

\* A call of doConnectionAttempt returns false in this step.
AttemptFails == attempts' = attempts + 1 /\ lastAttempt' = "failed"

\* C14: a connection attempt that fails, at resolve, connect or handshake,
\* leaves no handle that the attempt created: after it has returned, ws
\* does not hold the stream the attempt emplaced.
C14_FailedAttemptKeepsNoHandle ==
    [][AttemptFails => (ws' = NoHandle \/ ws'.id # attempts')]_vars

----------------------------------------------------------------------------
(* Completions of the read. *)

\* The worker thread runs handler_onread with operation_aborted.
ReadAbortHandled == ready'["read_abort"] = ready["read_abort"] - 1

\* C15: a read that completes with operation_aborted, as it does when
\* stop() closes the connection, is ignored: the handler starts no
\* doReconnect thread, does not call the callback and starts no read, and
\* no connection attempt is made.
C15_AbortedReadIsIgnored ==
    [][ReadAbortHandled =>
          /\ reconn' = reconn /\ rcur' = rcur
          /\ reads' = reads /\ rd' = rd
          /\ attempts' = attempts
          /\ UNCHANGED <<shouldBeActive, ws, start_delay_timer>>]_vars

\* stop() has returned after the read it cancelled completed with
\* operation_aborted and was handled: nothing was dispatched.
C15_Witness ==
    /\ cpc = "idle" /\ cop.op = "stop" /\ ret = "done"
    /\ ~shouldBeActive /\ mutex = "none"
    /\ ws.st = "closed" /\ rd = 0 /\ ready["read_abort"] = 0
    /\ reconn = {} /\ rret = "none" /\ attempts = 1 /\ reads = 0

----------------------------------------------------------------------------
(* The retry loop of the start delay timer. *)

\* start_delay_timer has expired and its handler has not yet made its
\* attempt.
StartDelayFiring == ready["sdt_ok"] > 0 \/ wpc = "sdt"

\* C16: while shouldBeActive stays true, a connection attempt that fails
\* leaves start_delay_timer armed, the handler of the fired timer makes
\* another attempt when it gets the lock, and once the timer has fired
\* its handler does get there unless stop() intervenes.
C16_FailedAttemptIsRetried ==
    /\ [][(AttemptFails /\ shouldBeActive') =>
             start_delay_timer' = "armed"]_vars
    /\ [][(wpc = "sdt" /\ wpc' # "sdt" /\ shouldBeActive) =>
             attempts' = attempts + 1]_vars
    /\ (StartDelayFiring /\ shouldBeActive)
          ~> (~StartDelayFiring \/ ~shouldBeActive)

----------------------------------------------------------------------------
(* The read loop. *)

\* Reads of the connection that are outstanding or completed with a
\* message and not yet handled.
ReadsInFlight == rd + ready["read_ok"]

\* A call of doConnectionAttempt returns true in this step.
AttemptSucceeds == attempts' = attempts + 1 /\ lastAttempt' = "ok"

\* What has become of the reads of a successful attempt when the attempt
\* returns, the first one and those started by handler_onread for the
\* messages it has handled by then: one of them is left, and it is
\* outstanding, or it has completed with a message or with an error and
\* its handler is queued, or its handler has detached a doReconnect
\* thread.
FirstReadAccounted ==
    rd' + (ready'["read_ok"] - ready["read_ok"])
        + (ready'["read_err"] - ready["read_err"])
        + Cardinality(reconn' \ reconn) = 1

\* C17: an open connection has exactly one read in flight and there is
\* never more than one.  A successful attempt starts one read; the handler
\* of a read that completed with a message calls the callback once, clears
\* buf and starts one read; the handler of a read that completed with an
\* error calls no callback and starts no read.
C17_OneOutstandingRead ==
    /\ [](/\ rd <= 1 /\ ReadsInFlight <= 1
          /\ ws.st = "open" => ReadsInFlight = 1
          /\ rd > 0 => buf = 0)
    /\ [][/\ AttemptSucceeds => (rd = 0 /\ FirstReadAccounted)
          /\ ready'["read_ok"] < ready["read_ok"] =>
                (reads' = reads + 1 /\ buf' = 0 /\ rd' = rd + 1)
          /\ (ready'["read_err"] < ready["read_err"]
              \/ ready'["read_abort"] < ready["read_abort"]) =>
                (reads' = reads /\ rd' = rd)]_vars

\* A message was read on an open connection and handed to the callback,
\* and the next read is outstanding.
C17_Witness ==
    /\ ws.st = "open" /\ reads = 1 /\ rd = 1 /\ buf = 0
    /\ ready["read_ok"] = 0 /\ wpc = "run"

----------------------------------------------------------------------------
(* Writes that fail. *)

\* sendMessage without sendIfOffline returns false from its catch block.
DirectWriteFails ==
    /\ cpc = "wait" /\ cop.op = "send" /\ ~cop.q /\ ws # NoHandle
    /\ cpc' = "idle" /\ ret' = "false"

\* A write throws in a step that makes no connection attempt: in
\* sendMessage, or in the drain run by sendMessage or by the queue timer.
WriteFails == attempts' = attempts /\ (DirectWriteFails \/ drain' = "failed")

\* C18: a write that fails, in sendMessage or in the drain of the queue,
\* starts no reconnect: shouldBeActive, the worker thread and
\* start_delay_timer are as before, ws still holds the same stream, and no
\* doReconnect thread is dispatched, also when the drain is the one a
\* successful connection attempt runs.
C18_FailedWriteStartsNoReconnect ==
    [][/\ WriteFails =>
             /\ UNCHANGED <<shouldBeActive, work, worker, threads,
                            start_delay_timer, reconn, rcur>>
             /\ ws' # NoHandle /\ ws'.id = ws.id
             /\ ready'["sdt_ok"] = ready["sdt_ok"]
       /\ drain' = "failed" => reconn' \subseteq reconn]_vars

\* A queued send and then a direct send have both failed on the first
\* connection: the client is still active on the same stream.
C18_Witness ==
    /\ cpc = "idle" /\ cop.op = "send" /\ ~cop.q /\ ret = "false"
    /\ messages = <<1>> /\ wire = << >> /\ nsend = 2
    /\ shouldBeActive /\ worker /\ ws.id = 1 /\ attempts = 1
    /\ reconn = {} /\ rcur = 0 /\ start_delay_timer = "idle"
    /\ message_queue_timer = "armed"

----------------------------------------------------------------------------
(* The lock, the join and the timer handlers. *)

\* The thread that holds the mutex is inside worker->join().
HolderJoins == (mutex = "caller" /\ cpc = "join") \/ (mutex = "reconn" /\ rcur # 0)

\* The worker thread is inside a timer handler, at its lock_guard.
WorkerAtLock == wpc \in {"sdt", "mqt"}

\* C19: no deadlock.  Every call of start(), stop() and sendMessage() and
\* every dispatched doReconnect returns; in particular the thread that
\* holds the lock and joins the worker thread never does so while the
\* worker thread is in a timer handler that waits for the same lock, a
\* state neither of the two can leave.
C19_NoDeadlock == ~(HolderJoins /\ WorkerAtLock)

----------------------------------------------------------------------------
(* A reconnect and the connection it was dispatched for. *)

\* A doReconnect thread takes the lock while ws holds an open stream other
\* than the one whose read error dispatched it.
StaleReconnectRuns ==
    /\ ~destroyed /\ ws.st = "open"
    /\ reconn' # reconn /\ reconn' \subseteq reconn
    /\ ws.id \notin (reconn \ reconn')

\* C20: a doReconnect dispatched for a read error on one stream only tears
\* down that stream.  When stop() and start() have replaced the stream
\* before it takes the lock, it does not close the new stream, does not
\* stop the worker and makes no connection attempt.
C20_ReconnectOnlyForItsHandle ==
    [][StaleReconnectRuns =>
          /\ ws' = ws /\ attempts' = attempts
          /\ UNCHANGED <<work, worker, rcur, mutex>>]_vars

====
